---- MODULE Spec2Model ----
(***************************************************************************)
(* Model of the Move modules documented in this repository:                *)
(*   examples::managed_pool   (src/examples/05_capability_pattern.md)      *)
(*   examples::simple_swap    (src/examples/03_simple_swap.md)             *)
(*   examples::versioning     (src/examples/06_versioning.md)              *)
(*   my_protocol::version/dex (src/unnamed/part_002)                       *)
(* and of the staking page of the front end                                *)
(*   StakingPage              (src/Bilinciler/src/pages/StakingPage.jsx)   *)
(* A Move call either commits all of its effects or aborts with a code and *)
(* commits none; `last` records the most recent call and its outcome.      *)
(***************************************************************************)
EXTENDS Integers, Naturals, Sequences, FiniteSets, TLC

VARIABLES
    pools,        \* managed_pool: sequence of shared ManagedPool objects
    treasuries,   \* managed_pool: sequence of shared FeeTreasury objects
    adminCaps,    \* managed_pool: AdminCap objects in existence, each its owner
    managerCaps,  \* managed_pool: sequence of PoolManagerCap [pool_id, owner]
    spool,        \* simple_swap: sequence (0 or 1) of shared Pool objects
    registry,     \* versioning: the shared VersionRegistry
    upgradeCaps,  \* versioning: UpgradeCap objects, cap id -> package version
    vault,        \* versioning: Vault.funds
    versionObj,   \* my_protocol::version: Version.version
    published,    \* my_protocol: number of package versions published so far
    paused,       \* my_protocol::dex: Pool.paused
    last,         \* the most recent call and its outcome
    stakeAmount,      \* StakingPage: useState("") of the stake input
    unstakeAmount,    \* StakingPage: useState("") of the unstake input
    isStaking,        \* StakingPage: useState(false)
    isUnstaking,      \* StakingPage: useState(false)
    statusMessage,    \* StakingPage: useState("")
    stakeImporting,   \* handleStake calls suspended at `await import(...)`
    unstakeImporting, \* handleUnstake calls suspended at `await import(...)`
    stakeInFlight,    \* stake transactions handed to signAndExecute, no callback yet
    unstakeInFlight   \* unstake transactions handed to signAndExecute, no callback yet

vars == <<pools, treasuries, adminCaps, managerCaps, spool, registry,
          upgradeCaps, vault, versionObj, published, paused, last,
          stakeAmount, unstakeAmount, isStaking, isUnstaking, statusMessage,
          stakeImporting, unstakeImporting, stakeInFlight, unstakeInFlight>>

poolVars == <<pools, treasuries, adminCaps, managerCaps>>
versioningVars == <<registry, upgradeCaps, vault>>
protocolVars == <<versionObj, published, paused>>
pageVars == <<stakeAmount, unstakeAmount, isStaking, isUnstaking, statusMessage,
              stakeImporting, unstakeImporting, stakeInFlight, unstakeInFlight>>
moveVars == <<poolVars, spool, versioningVars, protocolVars, last>>

-----------------------------------------------------------------------------
(* Bounds of the model *)

\* largest value of the unsigned integer type (u64, scaled down)
MaxU64 == 65535
\* largest coin value a caller passes in the one-pool specification
MaxCoin == 4
\* largest balance a pool or a treasury holds in the one-pool specification
MaxBalance == 8
\* largest balance a pool or a treasury holds in the two-pool specification
MaxCapsBalance == 2
\* largest package version published
MaxVersion == 3
\* largest amount the vault holds
MaxVault == 2
\* largest amount of A in the pool and the treasury before a swap near the
\* width of the integer type
MaxOverflowReserve == 300
\* largest number of transactions of one kind waiting in the wallet
MaxInFlight == 2
\* largest amount of A paid into the pool and the treasury of the usage example
MaxExampleReserve == 1100001

\* the ManagedPool objects of the two-pool specification
PoolIds == {1, 2}

Actors == {"publisher", "user"}
Publisher == "publisher"

BPS_DENOMINATOR == 10000

-----------------------------------------------------------------------------
(* u64 arithmetic: Move aborts on overflow, underflow and division by zero *)

Fits(x) == x >= 0 /\ x <= MaxU64

NoEvent == << >>

NoCall == [op |-> "none", actor |-> "none", pool |-> 0, treasury |-> 0,
           cap |-> 0, amount |-> 0, arg |-> 0, err |-> "OK",
           out |-> 0, out2 |-> 0, event |-> NoEvent]

Call(op, actor, p, t, c, amount, arg, err, out, out2) ==
    [op |-> op, actor |-> actor, pool |-> p, treasury |-> t, cap |-> c,
     amount |-> amount, arg |-> arg, err |-> err, out |-> out, out2 |-> out2,
     event |-> NoEvent]

CallWithEvent(op, actor, c, arg, err, event) ==
    [op |-> op, actor |-> actor, pool |-> 0, treasury |-> 0, cap |-> c,
     amount |-> 0, arg |-> arg, err |-> err, out |-> 0, out2 |-> 0,
     event |-> event]

-----------------------------------------------------------------------------
(* examples::managed_pool *)

\* mutant: the coin joined into the reserve before the call aborts
AbortedKeepsInput(pool, treasury, code) ==
    [err |-> code, pool |-> [pool EXCEPT !.token_a = @ + 1],
     treasury |-> treasury, out |-> 0]

\* an abort: the error code, and the objects as they were before the call
Aborted(pool, treasury, code) ==
    [err |-> code, pool |-> pool, treasury |-> treasury, out |-> 0]

\* mutant: the fee rounded up instead of down
FeeAmountRoundUp(input_amount, fee_percentage) ==
    (input_amount * fee_percentage + BPS_DENOMINATOR - 1) \div BPS_DENOMINATOR

\* mutant: the fee rounded to the nearest integer
FeeAmountNearest(input_amount, fee_percentage) ==
    (input_amount * fee_percentage + BPS_DENOMINATOR \div 2) \div BPS_DENOMINATOR

\* let fee_amount = (input_amount * pool.fee_percentage) / 10000;
FeeAmount(input_amount, fee_percentage) ==
    (input_amount * fee_percentage) \div BPS_DENOMINATOR

\* mutant: the output rounded up instead of down
OutputAmountRoundUp(swap_amount, token_a_amount, token_b_amount) ==
    (swap_amount * token_b_amount + token_a_amount + swap_amount - 1)
        \div (token_a_amount + swap_amount)

\* let output_amount = (swap_amount * token_b_amount) / (token_a_amount + swap_amount);
OutputAmount(swap_amount, token_a_amount, token_b_amount) ==
    (swap_amount * token_b_amount) \div (token_a_amount + swap_amount)

\* mutant: the frozen check left out
SwapAllowedAlways(pool) == TRUE

\* assert!(!pool.is_frozen, EPoolFrozen);
SwapAllowed(pool) == ~pool.is_frozen

\* mutant: the fee left in the pool's reserve instead of the treasury
SwapCommitFeeToReserve(pool, treasury, fee_amount, swap_amount, output_amount) ==
    [err |-> "OK",
     pool |-> [pool EXCEPT !.token_a = @ + swap_amount + fee_amount,
                           !.token_b = @ - output_amount],
     treasury |-> treasury,
     out |-> output_amount]

\* the pool and the treasury after the joins and the split of swap_with_fee
SwapCommit(pool, treasury, fee_amount, swap_amount, output_amount) ==
    [err |-> "OK",
     pool |-> [pool EXCEPT !.token_a = @ + swap_amount,
                           !.token_b = @ - output_amount],
     treasury |-> [treasury EXCEPT !.collected_a = @ + fee_amount],
     out |-> output_amount]

\* swap_with_fee, as a function of the objects and the coin passed to it
SwapWithFeeOutcome(pool, treasury, input_amount) ==
    IF ~SwapAllowed(pool) THEN Aborted(pool, treasury, "EPoolFrozen")
    ELSE IF ~Fits(input_amount * pool.fee_percentage)
    THEN Aborted(pool, treasury, "ARITHMETIC_ERROR")
    ELSE LET fee_amount == FeeAmount(input_amount, pool.fee_percentage) IN
    IF fee_amount > input_amount
    THEN Aborted(pool, treasury, "ARITHMETIC_ERROR")
    ELSE LET swap_amount == input_amount - fee_amount
             token_a_amount == pool.token_a
             token_b_amount == pool.token_b IN
    IF \/ ~Fits(swap_amount * token_b_amount)
       \/ ~Fits(token_a_amount + swap_amount)
       \/ token_a_amount + swap_amount = 0
    THEN Aborted(pool, treasury, "ARITHMETIC_ERROR")
    ELSE LET output_amount ==
                 OutputAmount(swap_amount, token_a_amount, token_b_amount) IN
    IF ~Fits(treasury.collected_a + fee_amount)
    THEN Aborted(pool, treasury, "ARITHMETIC_ERROR")
    ELSE IF output_amount > token_b_amount
    THEN Aborted(pool, treasury, "ENotEnough")
    ELSE SwapCommit(pool, treasury, fee_amount, swap_amount, output_amount)

\* a transaction can pass an owned object only when its sender owns it
HoldsAdminCap(actor) == \E i \in 1..Len(adminCaps) : adminCaps[i] = actor

HoldsManagerCap(actor, c) ==
    c \in 1..Len(managerCaps) /\ managerCaps[c].owner = actor

\* public fun create_pool(_: &AdminCap, token_a, token_b, fee_percentage, ctx)
CreatePool(actor, value_a, value_b, fee_percentage) ==
    /\ HoldsAdminCap(actor)
    /\ Len(pools) < Cardinality(PoolIds)
    /\ LET pool_id == Len(pools) + 1 IN
        /\ pools' = Append(pools, [token_a |-> value_a, token_b |-> value_b,
                                   fee_percentage |-> fee_percentage,
                                   is_frozen |-> FALSE])
        /\ treasuries' = Append(treasuries, [collected_a |-> 0, collected_b |-> 0])
        /\ managerCaps' = Append(managerCaps, [pool_id |-> pool_id, owner |-> actor])
        /\ last' = Call("create_pool", actor, pool_id, pool_id, pool_id,
                        value_a, fee_percentage, "OK", value_b, 0)
    /\ UNCHANGED <<pageVars, adminCaps, spool, versioningVars, protocolVars>>

\* mutant: the fee of a frozen pool refused
UpdateFeeActiveOnly(actor, c, p, new_fee_percentage) ==
    /\ HoldsManagerCap(actor, c)
    /\ p \in 1..Len(pools)
    /\ pools' = IF pools[p].is_frozen THEN pools
                ELSE [pools EXCEPT ![p].fee_percentage = new_fee_percentage]
    /\ last' = Call("update_fee", actor, p, 0, c, 0, new_fee_percentage,
                    IF pools[p].is_frozen THEN "EPoolFrozen" ELSE "OK", 0, 0)
    /\ UNCHANGED <<pageVars, treasuries, adminCaps, managerCaps, spool,
                   versioningVars, protocolVars>>

\* public fun update_fee(_: &PoolManagerCap, pool, new_fee_percentage)
UpdateFee(actor, c, p, new_fee_percentage) ==
    /\ HoldsManagerCap(actor, c)
    /\ p \in 1..Len(pools)
    /\ pools' = [pools EXCEPT ![p].fee_percentage = new_fee_percentage]
    /\ last' = Call("update_fee", actor, p, 0, c, 0, new_fee_percentage, "OK", 0, 0)
    /\ UNCHANGED <<pageVars, treasuries, adminCaps, managerCaps, spool,
                   versioningVars, protocolVars>>

\* the flag of a pool as a number, for the call record
Flag(b) == IF b THEN 1 ELSE 0

\* mutant: the flag flipped instead of set
FreezePoolToggle(actor, p) ==
    /\ HoldsAdminCap(actor)
    /\ p \in 1..Len(pools)
    /\ pools' = [pools EXCEPT ![p].is_frozen = ~@]
    /\ last' = Call("freeze_pool", actor, p, 0, 0, 0,
                    Flag(pools[p].is_frozen), "OK", 0, 0)
    /\ UNCHANGED <<pageVars, treasuries, adminCaps, managerCaps, spool,
                   versioningVars, protocolVars>>

\* public fun freeze_pool(_: &AdminCap, pool); the record keeps the flag
\* the pool had before the call
FreezePool(actor, p) ==
    /\ HoldsAdminCap(actor)
    /\ p \in 1..Len(pools)
    /\ pools' = [pools EXCEPT ![p].is_frozen = TRUE]
    /\ last' = Call("freeze_pool", actor, p, 0, 0, 0,
                    Flag(pools[p].is_frozen), "OK", 0, 0)
    /\ UNCHANGED <<pageVars, treasuries, adminCaps, managerCaps, spool,
                   versioningVars, protocolVars>>

\* mutant: the flag left as it is, so that a frozen pool stays frozen
UnfreezePoolNoop(actor, p) ==
    /\ HoldsAdminCap(actor)
    /\ p \in 1..Len(pools)
    /\ pools' = pools
    /\ last' = Call("unfreeze_pool", actor, p, 0, 0, 0,
                    Flag(pools[p].is_frozen), "OK", 0, 0)
    /\ UNCHANGED <<pageVars, treasuries, adminCaps, managerCaps, spool,
                   versioningVars, protocolVars>>

\* public fun unfreeze_pool(_: &AdminCap, pool)
UnfreezePool(actor, p) ==
    /\ HoldsAdminCap(actor)
    /\ p \in 1..Len(pools)
    /\ pools' = [pools EXCEPT ![p].is_frozen = FALSE]
    /\ last' = Call("unfreeze_pool", actor, p, 0, 0, 0,
                    Flag(pools[p].is_frozen), "OK", 0, 0)
    /\ UNCHANGED <<pageVars, treasuries, adminCaps, managerCaps, spool,
                   versioningVars, protocolVars>>

\* public fun swap_with_fee(pool, treasury, input, ctx): Coin<TokenB>
SwapWithFee(actor, p, t, input_amount) ==
    /\ p \in 1..Len(pools)
    /\ t \in 1..Len(treasuries)
    /\ LET r == SwapWithFeeOutcome(pools[p], treasuries[t], input_amount) IN
        /\ pools' = [pools EXCEPT ![p] = r.pool]
        /\ treasuries' = [treasuries EXCEPT ![t] = r.treasury]
        /\ last' = Call("swap_with_fee", actor, p, t, 0, input_amount, 0,
                        r.err, r.out, 0)
    /\ UNCHANGED <<pageVars, adminCaps, managerCaps, spool, versioningVars, protocolVars>>

\* mutant: an empty treasury refused
WithdrawFeesNonEmptyOnly(actor, c, t) ==
    /\ HoldsManagerCap(actor, c)
    /\ t \in 1..Len(treasuries)
    /\ LET amount_a == treasuries[t].collected_a
           amount_b == treasuries[t].collected_b
           err == IF amount_a + amount_b = 0 THEN "ENoFees" ELSE "OK" IN
        /\ treasuries' = [treasuries EXCEPT
                              ![t].collected_a = @ - amount_a,
                              ![t].collected_b = @ - amount_b]
        /\ last' = Call("withdraw_fees", actor, 0, t, c, 0, 0, err,
                        amount_a, amount_b)
    /\ UNCHANGED <<pageVars, pools, adminCaps, managerCaps, spool,
                   versioningVars, protocolVars>>

\* public fun withdraw_fees(_: &PoolManagerCap, treasury, ctx): (Coin<A>, Coin<B>)
WithdrawFees(actor, c, t) ==
    /\ HoldsManagerCap(actor, c)
    /\ t \in 1..Len(treasuries)
    /\ LET amount_a == treasuries[t].collected_a
           amount_b == treasuries[t].collected_b IN
        /\ treasuries' = [treasuries EXCEPT
                              ![t].collected_a = @ - amount_a,
                              ![t].collected_b = @ - amount_b]
        /\ last' = Call("withdraw_fees", actor, 0, t, c, 0, 0, "OK",
                        amount_a, amount_b)
    /\ UNCHANGED <<pageVars, pools, adminCaps, managerCaps, spool,
                   versioningVars, protocolVars>>

\* public fun transfer_manager_cap(cap: PoolManagerCap, recipient: address)
TransferManagerCap(actor, c, recipient) ==
    /\ HoldsManagerCap(actor, c)
    /\ managerCaps' = [managerCaps EXCEPT ![c].owner = recipient]
    /\ last' = Call("transfer_manager_cap", actor, 0, 0, c, 0, 0, "OK", 0, 0)
    /\ UNCHANGED <<pageVars, pools, treasuries, adminCaps, spool,
                   versioningVars, protocolVars>>

\* mutant: the recipient gets an AdminCap and the sender keeps its own
TransferAdminCapCopies(actor, recipient) ==
    /\ HoldsAdminCap(actor)
    /\ adminCaps' = Append(adminCaps, recipient)
    /\ last' = Call("transfer_admin_cap", actor, 0, 0, 0, 0, 0, "OK", 0, 0)
    /\ UNCHANGED <<pageVars, pools, treasuries, managerCaps, spool,
                   versioningVars, protocolVars>>

\* AdminCap has key, store: its owner can hand it on with public_transfer;
\* the object moves, for the struct has neither copy nor drop
TransferAdminCap(actor, recipient) ==
    /\ \E i \in 1..Len(adminCaps) :
          /\ adminCaps[i] = actor
          /\ adminCaps' = [adminCaps EXCEPT ![i] = recipient]
    /\ last' = Call("transfer_admin_cap", actor, 0, 0, 0, 0, 0, "OK", 0, 0)
    /\ UNCHANGED <<pageVars, pools, treasuries, managerCaps, spool,
                   versioningVars, protocolVars>>

-----------------------------------------------------------------------------
(* examples::managed_pool at the full width of u64.  The amounts of the     *)
(* usage example are too large for the scaled-down MaxU64; for operands     *)
(* below 2^31 no u64 product or sum overflows, and the quotient is computed *)
(* here without forming the product.                                        *)

\* <<floor(x * y / d), (x * y) mod d>>, by halving y
RECURSIVE MulDivRem(_, _, _)
MulDivRem(x, y, d) ==
    IF y = 0 THEN <<0, 0>>
    ELSE LET half == MulDivRem(x, y \div 2, d)
             twice == <<2 * half[1] + (2 * half[2]) \div d, (2 * half[2]) % d>>
         IN  IF y % 2 = 0 THEN twice
             ELSE <<twice[1] + (twice[2] + x) \div d, (twice[2] + x) % d>>

\* let fee_amount = (input_amount * pool.fee_percentage) / 10000;
FeeAmount64(input_amount, fee_percentage) ==
    MulDivRem(input_amount, fee_percentage, BPS_DENOMINATOR)[1]

\* mutant: the output rounded up instead of down
OutputAmount64RoundUp(swap_amount, token_a_amount, token_b_amount) ==
    LET qr == MulDivRem(swap_amount, token_b_amount, token_a_amount + swap_amount)
    IN  IF qr[2] = 0 THEN qr[1] ELSE qr[1] + 1

\* let output_amount = (swap_amount * token_b_amount) / (token_a_amount + swap_amount);
OutputAmount64(swap_amount, token_a_amount, token_b_amount) ==
    MulDivRem(swap_amount, token_b_amount, token_a_amount + swap_amount)[1]

\* swap_with_fee on amounts below 2^31
SwapWithFeeOutcome64(pool, treasury, input_amount) ==
    IF ~SwapAllowed(pool) THEN Aborted(pool, treasury, "EPoolFrozen")
    ELSE LET fee_amount == FeeAmount64(input_amount, pool.fee_percentage) IN
    IF fee_amount > input_amount
    THEN Aborted(pool, treasury, "ARITHMETIC_ERROR")
    ELSE LET swap_amount == input_amount - fee_amount
             token_a_amount == pool.token_a
             token_b_amount == pool.token_b IN
    IF token_a_amount + swap_amount = 0
    THEN Aborted(pool, treasury, "ARITHMETIC_ERROR")
    ELSE LET output_amount ==
                 OutputAmount64(swap_amount, token_a_amount, token_b_amount) IN
    IF output_amount > token_b_amount
    THEN Aborted(pool, treasury, "ENotEnough")
    ELSE SwapCommit(pool, treasury, fee_amount, swap_amount, output_amount)

\* public fun swap_with_fee(pool, treasury, input, ctx): Coin<TokenB>
SwapWithFee64(actor, p, t, input_amount) ==
    /\ p \in 1..Len(pools)
    /\ t \in 1..Len(treasuries)
    /\ LET r == SwapWithFeeOutcome64(pools[p], treasuries[t], input_amount) IN
        /\ pools' = [pools EXCEPT ![p] = r.pool]
        /\ treasuries' = [treasuries EXCEPT ![t] = r.treasury]
        /\ last' = Call("swap_with_fee", actor, p, t, 0, input_amount, 0,
                        r.err, r.out, 0)
    /\ UNCHANGED <<pageVars, adminCaps, managerCaps, spool, versioningVars, protocolVars>>

-----------------------------------------------------------------------------
(* examples::simple_swap *)

SimpleAborted(pool, code) == [err |-> code, pool |-> pool, out |-> 0]

\* mutant: the input multiplied by the reserve of the input asset
SimpleOutputWrongReserve(input_amount, reserve_in, reserve_out) ==
    (input_amount * reserve_in) \div (reserve_in + input_amount)

\* let output_amount = (input_amount * token_b_amount) / (token_a_amount + input_amount);
SimpleOutput(input_amount, reserve_in, reserve_out) ==
    (input_amount * reserve_out) \div (reserve_in + input_amount)

\* the body shared by swap_a_to_b and swap_b_to_a, on (input reserve, output reserve)
SimpleSwapOutcome(pool, inField, outField, input_amount) ==
    IF ~(input_amount > 0) THEN SimpleAborted(pool, "EZeroInput")
    ELSE IF \/ ~Fits(input_amount * pool[outField])
            \/ ~Fits(pool[inField] + input_amount)
    THEN SimpleAborted(pool, "ARITHMETIC_ERROR")
    ELSE LET output_amount ==
                 SimpleOutput(input_amount, pool[inField], pool[outField]) IN
    IF ~(output_amount > 0) THEN SimpleAborted(pool, "EInsufficientLiquidity")
    ELSE IF ~(output_amount <= pool[outField])
    THEN SimpleAborted(pool, "EInsufficientLiquidity")
    ELSE [err |-> "OK",
          pool |-> [pool EXCEPT ![inField] = @ + input_amount,
                                ![outField] = @ - output_amount],
          out |-> output_amount]

\* public fun create_pool(token_a, token_b, ctx)
SimpleCreatePool(actor, value_a, value_b) ==
    /\ spool = << >>
    /\ spool' = <<[token_a |-> value_a, token_b |-> value_b]>>
    /\ last' = Call("simple_create_pool", actor, 1, 0, 0, value_a, 0, "OK", value_b, 0)
    /\ UNCHANGED <<pageVars, poolVars, versioningVars, protocolVars>>

\* public fun swap_a_to_b(pool, input, ctx): Coin<TokenB>
SwapAToB(actor, input_amount) ==
    /\ spool # << >>
    /\ LET r == SimpleSwapOutcome(spool[1], "token_a", "token_b", input_amount) IN
        /\ spool' = <<r.pool>>
        /\ last' = Call("swap_a_to_b", actor, 1, 0, 0, input_amount, 0, r.err, r.out, 0)
    /\ UNCHANGED <<pageVars, poolVars, versioningVars, protocolVars>>

\* public fun swap_b_to_a(pool, input, ctx): Coin<TokenA>
SwapBToA(actor, input_amount) ==
    /\ spool # << >>
    /\ LET r == SimpleSwapOutcome(spool[1], "token_b", "token_a", input_amount) IN
        /\ spool' = <<r.pool>>
        /\ last' = Call("swap_b_to_a", actor, 1, 0, 0, input_amount, 0, r.err, r.out, 0)
    /\ UNCHANGED <<pageVars, poolVars, versioningVars, protocolVars>>

-----------------------------------------------------------------------------
(* examples::versioning *)

\* UpgradeCap objects: 1 is this package's, 2 belongs to another package
UpgradeCapIds == {1, 2}

\* package::upgrade_package(cap): the id of the latest package of the cap
UpgradePackage(c) == <<c, upgradeCaps[c]>>

\* package::version(cap)
PackageVersion(c) == upgradeCaps[c]

\* sui client upgrade: package::version(cap) goes up by one
UpgradePackageOf(actor, c) ==
    /\ c \in UpgradeCapIds
    /\ upgradeCaps[c] < MaxVersion
    /\ upgradeCaps' = [upgradeCaps EXCEPT ![c] = @ + 1]
    /\ last' = CallWithEvent("upgrade", actor, c, 0, "OK", NoEvent)
    /\ UNCHANGED <<pageVars, registry, vault, poolVars, spool, protocolVars>>

\* the checks of record_upgrade, in order
RecordUpgradeError(c) ==
    IF ~(registry.cap_id = c) THEN "EWrongCap"
    ELSE IF ~(PackageVersion(c) > registry.version) THEN "EOldVersion"
    ELSE "OK"

\* public entry fun record_upgrade(registry, cap)
RecordUpgrade(actor, c) ==
    /\ c \in UpgradeCapIds
    /\ LET err == RecordUpgradeError(c)
           new_package == UpgradePackage(c)
           new_version == PackageVersion(c) IN
        IF err = "OK"
        THEN /\ registry' = [registry EXCEPT !.package = new_package,
                                             !.version = new_version]
             /\ last' = CallWithEvent("record_upgrade", actor, c, 0, "OK",
                            [type |-> "UpgradeRecorded",
                             new_package |-> new_package,
                             new_version |-> new_version])
        ELSE /\ UNCHANGED registry
             /\ last' = CallWithEvent("record_upgrade", actor, c, 0, err, NoEvent)
    /\ UNCHANGED <<pageVars, upgradeCaps, vault, poolVars, spool, protocolVars>>

\* mutant: the version compared for equality
AssertSupportedExact(reg, min_version) == reg.version = min_version

\* public fun assert_supported(registry, min_version)
AssertSupported(reg, min_version) == reg.version >= min_version

\* public entry fun deposit(registry, vault, coin, min_version)
Deposit(actor, coin_value, min_version) ==
    /\ LET err == IF ~AssertSupported(registry, min_version) THEN "EOldVersion"
                  ELSE IF ~Fits(vault + coin_value) THEN "ARITHMETIC_ERROR"
                  ELSE "OK" IN
        /\ vault' = IF err = "OK" THEN vault + coin_value ELSE vault
        /\ last' = [CallWithEvent("deposit", actor, 0, min_version, err, NoEvent)
                        EXCEPT !.amount = coin_value]
    /\ UNCHANGED <<pageVars, registry, upgradeCaps, poolVars, spool, protocolVars>>

\* public entry fun withdraw(registry, vault, amount, min_version, ctx): Coin<SUI>
Withdraw(actor, amount, min_version) ==
    /\ LET err == IF ~AssertSupported(registry, min_version) THEN "EOldVersion"
                  ELSE IF ~(vault >= amount) THEN "EInsufficientBalance"
                  ELSE "OK" IN
        /\ vault' = IF err = "OK" THEN vault - amount ELSE vault
        /\ last' = [CallWithEvent("withdraw", actor, 0, min_version, err, NoEvent)
                        EXCEPT !.amount = amount,
                               !.out = IF err = "OK" THEN amount ELSE 0]
    /\ UNCHANGED <<pageVars, registry, upgradeCaps, poolVars, spool, protocolVars>>

-----------------------------------------------------------------------------
(* my_protocol::version and my_protocol::dex *)

\* Publisher objects: 1 was claimed by this package, 2 by another package
PublisherIds == {1, 2}

\* const VERSION: u64 of the k-th published package (incremented at every upgrade)
VERSION(pkg) == pkg

\* publisher.from_package<Version>()
FromPackage(pub) == pub = 1

\* sui client upgrade --upgrade-capability UPGRADE_CAP_ID
PublishUpgrade(actor) ==
    /\ published < MaxVersion
    /\ published' = published + 1
    /\ last' = CallWithEvent("publish_upgrade", actor, 0, published + 1, "OK", NoEvent)
    /\ UNCHANGED <<pageVars, versionObj, paused, poolVars, spool, versioningVars>>

\* mutant: an object version newer than the package accepted
CheckIsValidAtLeast(pkg) == versionObj >= VERSION(pkg)

\* public fun check_is_valid(self: &Version), as compiled into package pkg
CheckIsValid(pkg) == versionObj = VERSION(pkg)

\* the version object after migrate of package pkg
Migrated(pkg) == VERSION(pkg)

\* public fun migrate(publisher: &Publisher, version: &mut Version), of package pkg
Migrate(actor, pub, pkg) ==
    /\ pkg \in 1..published
    /\ pub \in PublisherIds
    /\ LET err == IF ~FromPackage(pub) THEN "EInvalidPublisher" ELSE "OK" IN
        /\ versionObj' = IF err = "OK" THEN Migrated(pkg) ELSE versionObj
        /\ last' = [CallWithEvent("migrate", actor, pub, pkg, err, NoEvent)
                        EXCEPT !.out = versionObj]
    /\ UNCHANGED <<pageVars, published, paused, poolVars, spool, versioningVars>>

\* a call of version.check_is_valid() from package pkg
CallCheckIsValid(actor, pkg) ==
    /\ pkg \in 1..published
    /\ last' = CallWithEvent("check_is_valid", actor, 0, pkg,
                   IF CheckIsValid(pkg) THEN "OK" ELSE "EInvalidPackageVersion",
                   NoEvent)
    /\ UNCHANGED <<pageVars, protocolVars, poolVars, spool, versioningVars>>

\* public fun pause(pool: &mut Pool, admin_cap: &AdminCap)
Pause(actor) ==
    /\ HoldsAdminCap(actor)
    /\ paused' = TRUE
    /\ last' = CallWithEvent("pause", actor, 0, 0, "OK", NoEvent)
    /\ UNCHANGED <<pageVars, versionObj, published, poolVars, spool, versioningVars>>

\* public fun unpause(pool: &mut Pool, admin_cap: &AdminCap)
Unpause(actor) ==
    /\ HoldsAdminCap(actor)
    /\ paused' = FALSE
    /\ last' = CallWithEvent("unpause", actor, 0, 0, "OK", NoEvent)
    /\ UNCHANGED <<pageVars, versionObj, published, poolVars, spool, versioningVars>>

\* public fun swap(pool: &mut Pool, version: &Version, ...), of package pkg
DexSwap(actor, pkg) ==
    /\ pkg \in 1..published
    /\ last' = CallWithEvent("dex_swap", actor, 0, pkg,
                   IF ~CheckIsValid(pkg) THEN "EInvalidPackageVersion"
                   ELSE IF paused THEN "EPoolPaused"
                   ELSE "OK",
                   NoEvent)
    /\ UNCHANGED <<pageVars, protocolVars, poolVars, spool, versioningVars>>

-----------------------------------------------------------------------------
(* StakingPage: the two amount inputs, the two busy flags, and the calls of *)
(* handleStake and handleUnstake.  A call runs to its `await import(...)`,  *)
(* is resumed later, and then runs to its end; signAndExecute returns at    *)
(* once and the wallet calls onSuccess or onError later.                    *)

\* values of an amount input: empty, not greater than 0, valid
AmountInputs == {"", "0", "1"}

\* !amount || parseFloat(amount) <= 0
InvalidAmount(amount) == amount = "" \/ amount = "0"

\* disabled={isStaking || !stakeAmount}
StakeButtonDisabled == isStaking \/ stakeAmount = ""

\* disabled={isUnstaking || !unstakeAmount}
UnstakeButtonDisabled == isUnstaking \/ unstakeAmount = ""

\* onChange of the stake input, and the 25%, 50%, 75%, MAX buttons
SetStakeAmount(v) ==
    /\ stakeAmount' = v
    /\ UNCHANGED <<unstakeAmount, isStaking, isUnstaking, statusMessage,
                   stakeImporting, unstakeImporting, stakeInFlight,
                   unstakeInFlight, moveVars>>

\* onChange of the unstake input, and the 0.1, 0.5, 1, 5 buttons
SetUnstakeAmount(v) ==
    /\ unstakeAmount' = v
    /\ UNCHANGED <<stakeAmount, isStaking, isUnstaking, statusMessage,
                   stakeImporting, unstakeImporting, stakeInFlight,
                   unstakeInFlight, moveVars>>

\* a click on Stake SUI: handleStake up to `await import(...)`
HandleStake ==
    /\ ~StakeButtonDisabled
    /\ IF InvalidAmount(stakeAmount)
       THEN /\ statusMessage' = "Please enter a valid amount to stake"
            /\ UNCHANGED <<isStaking, stakeImporting>>
       ELSE /\ isStaking' = TRUE
            /\ statusMessage' = "Building stake transaction..."
            /\ stakeImporting' = stakeImporting + 1
    /\ UNCHANGED <<stakeAmount, unstakeAmount, isUnstaking, unstakeImporting,
                   stakeInFlight, unstakeInFlight, moveVars>>

\* handleStake from the import to its end: the transaction is built and
\* handed to signAndExecute, or the import or the build throws and the catch
\* sets the message; then setIsStaking(false)
HandleStakeResume(imported) ==
    /\ stakeImporting > 0
    /\ stakeImporting' = stakeImporting - 1
    /\ IF imported
       THEN /\ stakeInFlight' = stakeInFlight + 1
            /\ statusMessage' = "Please sign the transaction in your wallet..."
       ELSE /\ statusMessage' = "Error"
            /\ UNCHANGED stakeInFlight
    /\ isStaking' = FALSE
    /\ UNCHANGED <<stakeAmount, unstakeAmount, isUnstaking, unstakeImporting,
                   unstakeInFlight, moveVars>>

\* onSuccess of a stake: the message, setStakeAmount("")
StakeOnSuccess ==
    /\ stakeInFlight > 0
    /\ stakeInFlight' = stakeInFlight - 1
    /\ statusMessage' = "Staked"
    /\ stakeAmount' = ""
    /\ UNCHANGED <<unstakeAmount, isStaking, isUnstaking, stakeImporting,
                   unstakeImporting, unstakeInFlight, moveVars>>

\* onError of a stake: the message
StakeOnError ==
    /\ stakeInFlight > 0
    /\ stakeInFlight' = stakeInFlight - 1
    /\ statusMessage' = "Stake failed"
    /\ UNCHANGED <<stakeAmount, unstakeAmount, isStaking, isUnstaking,
                   stakeImporting, unstakeImporting, unstakeInFlight, moveVars>>

\* a click on Unstake SUI: handleUnstake up to `await import(...)`
HandleUnstake ==
    /\ ~UnstakeButtonDisabled
    /\ IF InvalidAmount(unstakeAmount)
       THEN /\ statusMessage' = "Please enter a valid amount to unstake"
            /\ UNCHANGED <<isUnstaking, unstakeImporting>>
       ELSE /\ isUnstaking' = TRUE
            /\ statusMessage' = "Building unstake transaction..."
            /\ unstakeImporting' = unstakeImporting + 1
    /\ UNCHANGED <<stakeAmount, unstakeAmount, isStaking, stakeImporting,
                   stakeInFlight, unstakeInFlight, moveVars>>

\* handleUnstake from the import to its end, then setIsUnstaking(false)
HandleUnstakeResume(imported) ==
    /\ unstakeImporting > 0
    /\ unstakeImporting' = unstakeImporting - 1
    /\ IF imported
       THEN /\ unstakeInFlight' = unstakeInFlight + 1
            /\ statusMessage' = "Please sign the transaction in your wallet..."
       ELSE /\ statusMessage' = "Error"
            /\ UNCHANGED unstakeInFlight
    /\ isUnstaking' = FALSE
    /\ UNCHANGED <<stakeAmount, unstakeAmount, isStaking, stakeImporting,
                   stakeInFlight, moveVars>>

\* onSuccess of an unstake: the message, setUnstakeAmount("")
UnstakeOnSuccess ==
    /\ unstakeInFlight > 0
    /\ unstakeInFlight' = unstakeInFlight - 1
    /\ statusMessage' = "Unstaked"
    /\ unstakeAmount' = ""
    /\ UNCHANGED <<stakeAmount, isStaking, isUnstaking, stakeImporting,
                   unstakeImporting, stakeInFlight, moveVars>>

\* onError of an unstake: the message
UnstakeOnError ==
    /\ unstakeInFlight > 0
    /\ unstakeInFlight' = unstakeInFlight - 1
    /\ statusMessage' = "Unstake failed"
    /\ UNCHANGED <<stakeAmount, unstakeAmount, isStaking, isUnstaking,
                   stakeImporting, unstakeImporting, stakeInFlight, moveVars>>

-----------------------------------------------------------------------------
(* State after publication: managed_pool::init has sent the AdminCap to the *)
(* publisher, versioning::init has shared the registry and the vault, and   *)
(* my_protocol::version::init has shared the Version object.                *)

\* package::version of a freshly published package, and its VERSION constant
FirstVersion == 1

Init ==
    /\ pools = << >>
    /\ treasuries = << >>
    /\ adminCaps = <<Publisher>>
    /\ managerCaps = << >>
    /\ spool = << >>
    /\ upgradeCaps = [c \in UpgradeCapIds |-> FirstVersion]
    /\ registry = [package |-> <<1, FirstVersion>>, cap_id |-> 1,
                   version |-> FirstVersion]
    /\ vault = 0
    /\ versionObj = VERSION(FirstVersion)
    /\ published = FirstVersion
    /\ paused = FALSE
    /\ last = NoCall
    /\ stakeAmount = ""
    /\ unstakeAmount = ""
    /\ isStaking = FALSE
    /\ isUnstaking = FALSE
    /\ statusMessage = ""
    /\ stakeImporting = 0
    /\ unstakeImporting = 0
    /\ stakeInFlight = 0
    /\ unstakeInFlight = 0

\* fee_percentage values callers pass (u64; nothing restricts it to 10000)
FeeValues == {0, 5000, 10000, 40000}

\* fee_percentage values callers pass in the two-pool specification
CapsFeeValues == {0, 10000}

\* One ManagedPool, or one simple_swap Pool: the two modules share no state,
\* so a behaviour exercises one of them.
Next ==
    \/ \E actor \in Actors, a \in 0..MaxCoin, b \in 0..MaxCoin, f \in FeeValues :
          /\ pools = << >> /\ spool = << >>
          /\ CreatePool(actor, a, b, f)
    \/ \E actor \in Actors, c \in {1}, p \in {1}, f \in FeeValues :
          UpdateFee(actor, c, p, f)
    \/ \E actor \in Actors : FreezePool(actor, 1)
    \/ \E actor \in Actors : UnfreezePool(actor, 1)
    \/ \E actor \in Actors, x \in 0..MaxCoin :
          /\ pools # << >>
          /\ pools[1].token_a + x <= MaxBalance
          /\ treasuries[1].collected_a + x <= MaxBalance
          /\ SwapWithFee(actor, 1, 1, x)
    \/ \E actor \in Actors : WithdrawFees(actor, 1, 1)
    \/ \E actor \in Actors, r \in Actors : TransferManagerCap(actor, 1, r)
    \/ \E actor \in Actors, r \in Actors : TransferAdminCap(actor, r)
    \/ \E actor \in Actors, a \in 0..MaxCoin, b \in 0..MaxCoin :
          /\ pools = << >>
          /\ SimpleCreatePool(actor, a, b)
    \/ \E actor \in Actors, x \in 0..MaxCoin :
          /\ spool # << >>
          /\ spool[1].token_a + x <= MaxBalance
          /\ SwapAToB(actor, x)
    \/ \E actor \in Actors, x \in 0..MaxCoin :
          /\ spool # << >>
          /\ spool[1].token_b + x <= MaxBalance
          /\ SwapBToA(actor, x)

Spec == Init /\ [][Next]_vars

\* Two ManagedPools of the same token pair, with unit deposits.
NextCaps ==
    \/ \E actor \in Actors, f \in CapsFeeValues : CreatePool(actor, 1, 1, f)
    \/ \E actor \in Actors, c \in PoolIds, p \in PoolIds, f \in CapsFeeValues :
          UpdateFee(actor, c, p, f)
    \/ \E actor \in Actors, p \in PoolIds : FreezePool(actor, p)
    \/ \E actor \in Actors, p \in PoolIds : UnfreezePool(actor, p)
    \/ \E actor \in Actors, p \in PoolIds, t \in PoolIds :
          /\ p <= Len(pools) /\ pools[p].token_a + 1 <= MaxCapsBalance
          /\ t <= Len(treasuries)
          /\ treasuries[t].collected_a + 1 <= MaxCapsBalance
          /\ SwapWithFee(actor, p, t, 1)
    \/ \E actor \in Actors, c \in PoolIds, t \in PoolIds : WithdrawFees(actor, c, t)
    \/ \E actor \in Actors, c \in PoolIds, r \in Actors :
          TransferManagerCap(actor, c, r)
    \/ \E actor \in Actors, r \in Actors : TransferAdminCap(actor, r)

SpecCaps == Init /\ [][NextCaps]_vars

\* the amounts of the usage example and their neighbours
ExampleDepositsA == {999999, 1000000, 1000001}
ExampleDepositsB == {1999999, 2000000, 2000001}
ExampleInputs == {0, 99999, 100000, 100001}
ExampleFees == {0, 30, 100, 10000}

\* One ManagedPool with the deposits of the usage example, swapped into at
\* the full width of u64.
NextExample ==
    \/ \E actor \in Actors, a \in ExampleDepositsA, b \in ExampleDepositsB,
          f \in ExampleFees :
          /\ pools = << >>
          /\ CreatePool(actor, a, b, f)
    \/ \E actor \in Actors, x \in ExampleInputs :
          /\ pools # << >>
          /\ pools[1].token_a + treasuries[1].collected_a + x <= MaxExampleReserve
          /\ SwapWithFee64(actor, 1, 1, x)

SpecExample == Init /\ [][NextExample]_vars

\* amounts near the width of the integer type and near its square root
OverflowDeposits == {1, 255, 256}
OverflowInputs == {7, 256, 65535}

\* One ManagedPool with a fee within [0, 10000], swapped into with amounts
\* whose products with a reserve or with the fee exceed MaxU64.
NextOverflow ==
    \/ \E actor \in Actors, a \in OverflowDeposits, b \in OverflowDeposits,
          f \in {0, BPS_DENOMINATOR} :
          /\ pools = << >>
          /\ CreatePool(actor, a, b, f)
    \/ \E actor \in Actors, x \in OverflowInputs :
          /\ pools # << >>
          /\ pools[1].token_a + treasuries[1].collected_a <= MaxOverflowReserve
          /\ SwapWithFee(actor, 1, 1, x)

SpecOverflow == Init /\ [][NextOverflow]_vars

\* StakingPage: the user types and clicks, imports resolve, the wallet
\* answers, in any order
NextPage ==
    \/ \E v \in AmountInputs : SetStakeAmount(v)
    \/ \E v \in AmountInputs : SetUnstakeAmount(v)
    \/ stakeInFlight + stakeImporting < MaxInFlight /\ HandleStake
    \/ \E imported \in BOOLEAN : HandleStakeResume(imported)
    \/ StakeOnSuccess
    \/ StakeOnError
    \/ unstakeInFlight + unstakeImporting < MaxInFlight /\ HandleUnstake
    \/ \E imported \in BOOLEAN : HandleUnstakeResume(imported)
    \/ UnstakeOnSuccess
    \/ UnstakeOnError

SpecPage == Init /\ [][NextPage]_vars

\* examples::versioning
NextVersioning ==
    \/ \E actor \in Actors, c \in UpgradeCapIds : UpgradePackageOf(actor, c)
    \/ \E actor \in Actors, c \in UpgradeCapIds : RecordUpgrade(actor, c)
    \/ \E actor \in Actors, v \in 0..MaxVault, m \in 0..(MaxVersion + 1) :
          /\ vault + v <= MaxVault
          /\ Deposit(actor, v, m)
    \/ \E actor \in Actors, v \in 0..(MaxVault + 1), m \in 0..(MaxVersion + 1) :
          Withdraw(actor, v, m)

SpecVersioning == Init /\ [][NextVersioning]_vars

\* my_protocol::version and my_protocol::dex
NextProtocol ==
    \/ \E actor \in Actors : PublishUpgrade(actor)
    \/ \E actor \in Actors, pub \in PublisherIds, pkg \in 1..MaxVersion :
          Migrate(actor, pub, pkg)
    \/ \E actor \in Actors, pkg \in 1..MaxVersion : CallCheckIsValid(actor, pkg)
    \/ \E actor \in Actors : Pause(actor)
    \/ \E actor \in Actors : Unpause(actor)
    \/ \E actor \in Actors, pkg \in 1..MaxVersion : DexSwap(actor, pkg)

SpecProtocol == Init /\ [][NextProtocol]_vars

-----------------------------------------------------------------------------
(* Properties *)

Product(pool) == pool.token_a * pool.token_b

SwapWithFeeOk(l) == l.op = "swap_with_fee" /\ l.err = "OK"

SimpleSwapOk(l) == l.op \in {"swap_a_to_b", "swap_b_to_a"} /\ l.err = "OK"

\* C1: every successful swap, A to B or B to A, with or without a fee, leaves
\* reserve_a * reserve_b greater than or equal to what it was.
C1_ProductNonDecreasing ==
    [][ /\ SwapWithFeeOk(last') =>
              Product(pools'[last'.pool]) >= Product(pools[last'.pool])
        /\ SimpleSwapOk(last') => Product(spool'[1]) >= Product(spool[1])
      ]_vars

\* a swap with a fee in (0, 10000] has paid out a positive amount
C1_Witness ==
    /\ SwapWithFeeOk(last)
    /\ last.amount > 0
    /\ last.out > 0
    /\ pools[last.pool].fee_percentage \in 1..BPS_DENOMINATOR

\* C2 (as claimed): a successful swap of a non-zero input for a non-zero
\* output on a pool with non-zero reserves whose fee is greater than 0
\* strictly increases reserve_a * reserve_b.
C2_StrictWithFee ==
    [][ ( /\ SwapWithFeeOk(last')
          /\ last'.amount > 0
          /\ last'.out > 0
          /\ pools[last'.pool].token_a > 0
          /\ pools[last'.pool].token_b > 0
          /\ pools[last'.pool].fee_percentage > 0 )
        => Product(pools'[last'.pool]) > Product(pools[last'.pool])
      ]_vars

\* C2 (amended): a successful swap increases reserve_a * reserve_b by exactly
\* the remainder of swap_amount * reserve_b divided by reserve_a + swap_amount,
\* where swap_amount is what the reserve of the input asset gained; the fee,
\* kept in the treasury, adds nothing to it.
C2_ProductGrowsByRemainder ==
    [][ SwapWithFeeOk(last') =>
          LET before == pools[last'.pool]
              after == pools'[last'.pool]
              swap_amount == after.token_a - before.token_a
          IN  /\ before.token_a + swap_amount > 0
              /\ swap_amount + (treasuries'[last'.treasury].collected_a
                                - treasuries[last'.treasury].collected_a)
                   = last'.amount
              /\ Product(after) - Product(before)
                   = (swap_amount * before.token_b)
                        % (before.token_a + swap_amount)
      ]_vars

\* a swap that charged a fee and paid out, and left the product as it was:
\* the reserves are (2, 1) after (1, 2), the treasury holds the fee
C2_Witness ==
    /\ SwapWithFeeOk(last)
    /\ last.out > 0
    /\ pools[last.pool].fee_percentage > 0
    /\ treasuries[last.treasury].collected_a > 0
    /\ pools[last.pool].token_a > last.amount
    /\ Product(pools[last.pool])
         = (pools[last.pool].token_a - (last.amount
               - FeeAmount(last.amount, pools[last.pool].fee_percentage)))
           * (pools[last.pool].token_b + last.out)

\* C3 (as claimed): in every state after create_pool both reserves of every
\* pool are greater than 0.
C3_ReservesPositive ==
    \A p \in 1..Len(pools) : pools[p].token_a > 0 /\ pools[p].token_b > 0

\* C4: a successful swap adds floor(input * fee / 10000) to collected_a of the
\* treasury, adds the rest of the input to token_a, removes exactly the output
\* from token_b and leaves collected_b alone, so that token_a + collected_a
\* grows by exactly the input.
C4_InputConsumedExactly ==
    [][ SwapWithFeeOk(last') =>
          LET p == last'.pool
              t == last'.treasury
              input_amount == last'.amount
              fee_amount == (input_amount * pools[p].fee_percentage) \div 10000
          IN  /\ treasuries'[t].collected_a = treasuries[t].collected_a + fee_amount
              /\ pools'[p].token_a = pools[p].token_a + input_amount - fee_amount
              /\ pools'[p].token_b = pools[p].token_b - last'.out
              /\ treasuries'[t].collected_b = treasuries[t].collected_b
              /\ pools'[p].token_a + treasuries'[t].collected_a
                   = pools[p].token_a + treasuries[t].collected_a + input_amount
      ]_vars

\* a swap that split its input into a non-zero fee and a non-zero swap amount
C4_Witness ==
    /\ SwapWithFeeOk(last)
    /\ LET fee_amount == FeeAmount(last.amount, pools[last.pool].fee_percentage) IN
        /\ fee_amount > 0
        /\ fee_amount < last.amount
        /\ treasuries[last.treasury].collected_a >= fee_amount
    /\ last.out > 0

\* C5 (as claimed): update_fee or withdraw_fees called with the
\* PoolManagerCap of another pool fails, and leaves the fee of the pool and
\* the treasury as they were.
C5_ForeignCapRejected ==
    [][ /\ ( /\ last'.op = "update_fee"
             /\ managerCaps[last'.cap].pool_id # last'.pool )
           => /\ last'.err # "OK"
              /\ pools'[last'.pool].fee_percentage
                   = pools[last'.pool].fee_percentage
        /\ ( /\ last'.op = "withdraw_fees"
             /\ managerCaps[last'.cap].pool_id # last'.treasury )
           => /\ last'.err # "OK"
              /\ treasuries'[last'.treasury] = treasuries[last'.treasury]
      ]_vars

\* the caller of the step owned the PoolManagerCap it passed, and the cap is
\* the one of pool p
PresentedManagerCapOf(p) ==
    /\ last'.cap \in 1..Len(managerCaps)
    /\ managerCaps[last'.cap].owner = last'.actor
    /\ managerCaps[last'.cap].pool_id = p

\* C6 (as claimed): is_frozen changes only in a step whose caller owns the
\* AdminCap; the fee changes and a treasury decreases only in a step whose
\* caller passes the PoolManagerCap of that pool.
C6_PrivilegedFieldsGated ==
    [][ \A p \in 1..Len(pools) :
          /\ pools'[p].is_frozen # pools[p].is_frozen
               => HoldsAdminCap(last'.actor)
          /\ pools'[p].fee_percentage # pools[p].fee_percentage
               => PresentedManagerCapOf(p)
          /\ ( \/ treasuries'[p].collected_a < treasuries[p].collected_a
               \/ treasuries'[p].collected_b < treasuries[p].collected_b )
               => PresentedManagerCapOf(p)
      ]_vars

\* C7: on a frozen pool swap_with_fee aborts with EPoolFrozen, whatever the
\* input, and leaves the reserves and the treasuries as they were.
C7_FrozenRejectsSwap ==
    [][ ( /\ last'.op = "swap_with_fee"
          /\ pools[last'.pool].is_frozen )
        => /\ last'.err = "EPoolFrozen"
           /\ pools' = pools
           /\ treasuries' = treasuries
      ]_vars

\* a swap was rejected as frozen that the same pool, not frozen, would have
\* carried out with a non-zero output
C7_Witness ==
    /\ last.op = "swap_with_fee"
    /\ last.err = "EPoolFrozen"
    /\ last.amount > 0
    /\ pools[last.pool].is_frozen
    /\ LET r == SwapWithFeeOutcome([pools[last.pool] EXCEPT !.is_frozen = FALSE],
                                   treasuries[last.treasury], last.amount)
       IN  r.err = "OK" /\ r.out > 0

\* C8: deposit and withdraw pass the version check exactly when the declared
\* min_version is at most the registry's version, also when it is lower
\* (stale); then deposit succeeds when the sum fits the vault's u64, and
\* withdraw succeeds when the vault holds the amount; when min_version is
\* greater they abort with EOldVersion and leave the vault as it was.
C8_MinVersionGate ==
    [][ last'.op \in {"deposit", "withdraw"} =>
          IF last'.arg <= registry.version
          THEN /\ last'.err # "EOldVersion"
               /\ (last'.op = "deposit" /\ Fits(vault + last'.amount)) =>
                     last'.err = "OK" /\ vault' = vault + last'.amount
               /\ (last'.op = "withdraw" /\ vault >= last'.amount) =>
                     last'.err = "OK" /\ vault' = vault - last'.amount
          ELSE /\ last'.err = "EOldVersion"
               /\ vault' = vault
      ]_vars

\* after a recorded upgrade, a deposit declaring a lower min_version succeeded
C8_Witness ==
    /\ registry.version > FirstVersion
    /\ last.op = "deposit"
    /\ last.arg > 0
    /\ last.arg < registry.version
    /\ last.amount > 0
    /\ last.err = "OK"

\* C9 (as claimed): migrate called with the package's Publisher fails and
\* leaves the version as it was exactly when the new version is not greater
\* than the current one; otherwise it sets the version to the new version.
C9_MigrateMonotonic ==
    [][ ( /\ last'.op = "migrate"
          /\ FromPackage(last'.cap) )
        => IF VERSION(last'.arg) <= versionObj
           THEN last'.err # "OK" /\ versionObj' = versionObj
           ELSE last'.err = "OK" /\ versionObj' = VERSION(last'.arg)
      ]_vars

C11_RejectedLeavesStateUnchanged ==
    [][ /\ last'.err # "OK" =>
              /\ pools' = pools
              /\ treasuries' = treasuries
              /\ adminCaps' = adminCaps
              /\ managerCaps' = managerCaps
              /\ spool' = spool
        /\ (last'.op = "swap_with_fee" /\ pools' # pools) =>
              /\ last'.err = "OK"
              /\ treasuries'[last'.treasury].collected_a
                   = treasuries[last'.treasury].collected_a
                     + (last'.amount * pools[last'.pool].fee_percentage) \div 10000
      ]_vars

\* a swap of a non-zero input on a pool that is not frozen aborted
C11_Witness ==
    /\ last.op = "swap_with_fee"
    /\ last.amount > 0
    /\ ~pools[last.pool].is_frozen
    /\ last.err \notin {"OK", "EPoolFrozen"}

\* the output a swap of input s computes on reserves (reserveIn, reserveOut)
ComputedOutput(s, reserveIn, reserveOut) == (s * reserveOut) \div (reserveIn + s)

\* C12 (as claimed): a swap of a non-zero input on a pool that is not frozen
\* and holds non-zero reserves aborts with EInsufficientLiquidity, leaving
\* the reserves as they were, when the output it computes is 0 or at least
\* the opposite reserve; a successful swap pays out more than 0 and less than
\* the opposite reserve.
C12_InsufficientLiquidity ==
    [][ /\ ( /\ last'.op = "swap_with_fee"
             /\ last'.amount > 0
             /\ ~pools[last'.pool].is_frozen
             /\ pools[last'.pool].token_a > 0
             /\ pools[last'.pool].token_b > 0
             /\ pools[last'.pool].fee_percentage <= 10000 )
           => LET before == pools[last'.pool]
                  s == last'.amount
                         - (last'.amount * before.fee_percentage) \div 10000
                  computed == ComputedOutput(s, before.token_a, before.token_b)
              IN  /\ (computed = 0 \/ computed >= before.token_b) =>
                        /\ last'.err = "EInsufficientLiquidity"
                        /\ pools' = pools
                  /\ last'.err = "OK" =>
                        last'.out > 0 /\ last'.out < before.token_b
        /\ ( /\ last'.op \in {"swap_a_to_b", "swap_b_to_a"}
             /\ last'.amount > 0
             /\ spool[1].token_a > 0
             /\ spool[1].token_b > 0 )
           => LET reserveIn == IF last'.op = "swap_a_to_b"
                               THEN spool[1].token_a ELSE spool[1].token_b
                  reserveOut == IF last'.op = "swap_a_to_b"
                                THEN spool[1].token_b ELSE spool[1].token_a
                  computed == ComputedOutput(last'.amount, reserveIn, reserveOut)
              IN  /\ (computed = 0 \/ computed >= reserveOut) =>
                        /\ last'.err = "EInsufficientLiquidity"
                        /\ spool' = spool
                  /\ last'.err = "OK" =>
                        last'.out > 0 /\ last'.out < reserveOut
      ]_vars

\* C13 (as claimed): a swap of a zero input on a pool that is not frozen
\* aborts with EZeroInput, in both directions and whatever the (non-zero)
\* reserves, and leaves the reserves and the treasuries as they were.
C13_ZeroInputRejected ==
    [][ /\ ( /\ last'.op = "swap_with_fee"
             /\ last'.amount = 0
             /\ ~pools[last'.pool].is_frozen
             /\ pools[last'.pool].token_a > 0
             /\ pools[last'.pool].token_b > 0 )
           => /\ last'.err = "EZeroInput"
              /\ pools' = pools
              /\ treasuries' = treasuries
        /\ ( /\ last'.op \in {"swap_a_to_b", "swap_b_to_a"}
             /\ last'.amount = 0 )
           => /\ last'.err = "EZeroInput"
              /\ spool' = spool
      ]_vars

\* C14: freeze_pool and unfreeze_pool called by the owner of the AdminCap
\* always succeed; freeze_pool leaves the pool frozen and unfreeze_pool leaves
\* it not frozen, whatever the flag was, and nothing else changes; so
\* freeze_pool on a frozen pool, and unfreeze_pool on a pool that is not
\* frozen, leave the whole state as it was.
C14_FreezeIdempotent ==
    [][ last'.op \in {"freeze_pool", "unfreeze_pool"} =>
          LET p == last'.pool
              target == (last'.op = "freeze_pool") IN
          /\ last'.err = "OK"
          /\ pools'[p].is_frozen = target
          /\ pools' = [pools EXCEPT ![p].is_frozen = target]
          /\ pools[p].is_frozen = target => pools' = pools
          /\ treasuries' = treasuries
          /\ adminCaps' = adminCaps
          /\ managerCaps' = managerCaps
      ]_vars

\* freeze_pool was called on a pool that was already frozen
C14_Witness ==
    /\ last.op = "freeze_pool"
    /\ last.arg = Flag(TRUE)
    /\ last.err = "OK"
    /\ pools[last.pool].is_frozen

\* C15: withdraw_fees called with the PoolManagerCap of the treasury's pool
\* always succeeds, returns exactly the two amounts the treasury held before
\* the call, the pair (0, 0) when it held nothing, and leaves both balances
\* of that treasury at zero and everything else as it was.
C15_WithdrawDrainsTreasury ==
    [][ ( /\ last'.op = "withdraw_fees"
          /\ managerCaps[last'.cap].pool_id = last'.treasury )
        => LET t == last'.treasury IN
           /\ last'.err = "OK"
           /\ last'.out = treasuries[t].collected_a
           /\ last'.out2 = treasuries[t].collected_b
           /\ treasuries'[t].collected_a = 0
           /\ treasuries'[t].collected_b = 0
           /\ \A u \in 1..Len(treasuries) : u # t => treasuries'[u] = treasuries[u]
           /\ pools' = pools
      ]_vars

\* fees collected by a swap were withdrawn, and the treasury is empty
C15_Witness ==
    /\ last.op = "withdraw_fees"
    /\ last.err = "OK"
    /\ last.out > 0
    /\ treasuries[last.treasury].collected_a = 0

\* withdraw_fees on a treasury that held nothing returned (0, 0)
C15_WitnessEmpty ==
    /\ last.op = "withdraw_fees"
    /\ last.err = "OK"
    /\ last.out = 0 /\ last.out2 = 0
    /\ pools[1].token_a > 0

\* C16 (as claimed): in every state the fee of every pool is at most 10000
\* (and, a u64, at least 0), so that a swap never takes a fee greater than
\* its input.
C16_FeeInRange ==
    \A p \in 1..Len(pools) :
        /\ pools[p].fee_percentage >= 0
        /\ pools[p].fee_percentage <= 10000

\* C17 (as claimed): create_pool succeeds exactly when both deposits are
\* greater than 0 and the fee is at most 10000, and otherwise aborts and
\* creates no pool; the pool it creates holds the two deposits, is not
\* frozen, and has an empty treasury.
C17_CreatePoolValidates ==
    [][ /\ last'.op = "create_pool" =>
              IF last'.amount > 0 /\ last'.out > 0 /\ last'.arg <= 10000
              THEN /\ last'.err = "OK"
                   /\ Len(pools') = Len(pools) + 1
                   /\ pools'[last'.pool].token_a = last'.amount
                   /\ pools'[last'.pool].token_b = last'.out
                   /\ pools'[last'.pool].fee_percentage = last'.arg
                   /\ pools'[last'.pool].is_frozen = FALSE
                   /\ treasuries'[last'.treasury].collected_a = 0
                   /\ treasuries'[last'.treasury].collected_b = 0
              ELSE /\ last'.err # "OK"
                   /\ pools' = pools
                   /\ treasuries' = treasuries
        /\ last'.op = "simple_create_pool" =>
              IF last'.amount > 0 /\ last'.out > 0
              THEN /\ last'.err = "OK"
                   /\ spool' = <<[token_a |-> last'.amount, token_b |-> last'.out]>>
              ELSE /\ last'.err # "OK"
                   /\ spool' = spool
      ]_vars

ManagerCapsOf(p) == {c \in 1..Len(managerCaps) : managerCaps[c].pool_id = p}

\* C19 (as claimed): every pool has exactly one authoritative
\* PoolManagerCap, the one create_pool returned for it, and update_fee and
\* withdraw_fees succeed on a pool only when called with that capability.
C19_OnlyAuthoritativeCapAccepted ==
    [][ /\ \A p \in 1..Len(pools') : Cardinality(ManagerCapsOf(p)') = 1
        /\ (last'.op = "update_fee" /\ last'.err = "OK")
              => last'.cap \in ManagerCapsOf(last'.pool)
        /\ (last'.op = "withdraw_fees" /\ last'.err = "OK")
              => last'.cap \in ManagerCapsOf(last'.treasury)
      ]_vars

\* the pool of the example: 1,000,000 of A, 2,000,000 of B, a fee of 30
ExamplePool ==
    [token_a |-> 1000000, token_b |-> 2000000, fee_percentage |-> 30,
     is_frozen |-> FALSE]

\* C20 (as claimed): on a pool created with 1,000,000 of A, 2,000,000 of B
\* and a fee of 30, a swap of 100,000 of A takes a fee of 300, adds 99,700 to
\* the reserve of A and pays out 1,814,131 of B.
C20_ExampleOutputAsClaimed ==
    [][ ( /\ last'.op = "swap_with_fee"
          /\ last'.amount = 100000
          /\ pools[1] = ExamplePool )
        => /\ last'.err = "OK"
           /\ treasuries'[1].collected_a = treasuries[1].collected_a + 300
           /\ pools'[1].token_a = 1000000 + 99700
           /\ last'.out = 1814131
      ]_vars

\* C20 (amended): on that pool the swap of 100,000 of A takes a fee of 300,
\* adds 99,700 to the reserve of A and pays out 181,322 of B, which is
\* floor(99,700 * 2,000,000 / 1,099,700), leaving 1,818,678 of B.
C20_ExampleOutput ==
    [][ ( /\ last'.op = "swap_with_fee"
          /\ last'.amount = 100000
          /\ pools[1] = ExamplePool )
        => /\ last'.err = "OK"
           /\ treasuries'[1].collected_a = treasuries[1].collected_a + 300
           /\ pools'[1].token_a = 1000000 + 99700
           /\ last'.out = 181322
           /\ pools'[1].token_b = 2000000 - 181322
      ]_vars

\* the swap of the example has been carried out on the pool of the example
C20_Witness ==
    /\ last.op = "swap_with_fee"
    /\ last.err = "OK"
    /\ last.amount = 100000
    /\ pools[1].fee_percentage = 30
    /\ pools[1].token_a = 1099700
    /\ pools[1].token_b + last.out = 2000000
    /\ treasuries[1].collected_a = 300

\* C21 (as claimed): on a pool whose fee is 10000, not frozen and with
\* non-zero reserves, every swap of a non-zero input aborts with
\* EInsufficientLiquidity and leaves the reserves and the treasuries as they
\* were: the whole input is never taken as the fee.
C21_FullFeeSwapRejected ==
    [][ ( /\ last'.op = "swap_with_fee"
          /\ last'.amount > 0
          /\ ~pools[last'.pool].is_frozen
          /\ pools[last'.pool].token_a > 0
          /\ pools[last'.pool].token_b > 0
          /\ pools[last'.pool].fee_percentage = 10000 )
        => /\ last'.err = "EInsufficientLiquidity"
           /\ pools' = pools
           /\ treasuries' = treasuries
      ]_vars

\* C22: migrate called with the package's Publisher sets the Version object
\* to the VERSION constant of the package whose migrate it is; the version
\* changes in no other call, so until then it is the one init set; and
\* check_is_valid, alone or at the head of swap, passes for the packages
\* whose VERSION equals the object's version and aborts with
\* EInvalidPackageVersion for every other package.
C22_MigrateThenCheckIsValid ==
    [][ /\ last'.op = "migrate" =>
              IF last'.cap = 1
              THEN last'.err = "OK" /\ versionObj' = last'.arg
              ELSE last'.err = "EInvalidPublisher" /\ versionObj' = versionObj
        /\ last'.op # "migrate" => versionObj' = versionObj
        /\ last'.op = "check_is_valid" =>
              IF versionObj = last'.arg
              THEN last'.err = "OK"
              ELSE last'.err = "EInvalidPackageVersion"
        /\ last'.op = "dex_swap" =>
              (last'.err = "EInvalidPackageVersion" <=> versionObj # last'.arg)
      ]_vars

\* after the upgraded package migrated the object, check_is_valid of the
\* previous package aborted
C22_Witness ==
    /\ versionObj = VERSION(2)
    /\ last.op = "check_is_valid"
    /\ last.arg = 1
    /\ last.err = "EInvalidPackageVersion"

\* the fee the step charged on a swap into pool p, and what the step
\* returned from the treasury created with pool p
FeeChargedOn(p) ==
    IF SwapWithFeeOk(last') /\ last'.pool = p
    THEN (last'.amount * pools[p].fee_percentage) \div 10000
    ELSE 0

ReturnedFrom(p) ==
    IF last'.op = "withdraw_fees" /\ last'.err = "OK" /\ last'.treasury = p
    THEN <<last'.out, last'.out2>>
    ELSE <<0, 0>>

\* C23 (as claimed): in every step and for every pool, the treasury created
\* with the pool gains exactly the fee of a successful swap into that pool
\* and loses exactly what a successful withdraw_fees returns, so that the
\* treasury plus all that was withdrawn equals the fees of all the swaps of
\* the pool; the reserve gains the input less the fee.
C23_TreasuryAccounting ==
    [][ \A p \in 1..Len(pools) :
          /\ treasuries'[p].collected_a + ReturnedFrom(p)[1]
                = treasuries[p].collected_a + FeeChargedOn(p)
          /\ treasuries'[p].collected_b + ReturnedFrom(p)[2]
                = treasuries[p].collected_b
          /\ (SwapWithFeeOk(last') /\ last'.pool = p) =>
                pools'[p].token_a = pools[p].token_a + last'.amount - FeeChargedOn(p)
      ]_vars

\* C24: a frozen pool can always be unfrozen by the owner of the AdminCap;
\* freeze_pool of an active pool and unfreeze_pool of a frozen pool change the
\* flag and nothing else, so that after the unfreeze the reserves, the fee,
\* the treasuries and the capabilities are those from before the freeze and
\* every swap has the result it would have had then.
C24_FrozenReversible ==
    [][ \A p \in 1..Len(pools) :
          /\ pools[p].is_frozen => \E a \in Actors : ENABLED UnfreezePool(a, p)
          /\ ( /\ last'.op = "freeze_pool" /\ last'.pool = p
               /\ ~pools[p].is_frozen )
             => /\ pools'[p].is_frozen
                /\ [pools'[p] EXCEPT !.is_frozen = FALSE] = pools[p]
                /\ treasuries' = treasuries
                /\ managerCaps' = managerCaps
          /\ ( /\ last'.op = "unfreeze_pool" /\ last'.pool = p
               /\ pools[p].is_frozen )
             => /\ last'.err = "OK"
                /\ ~pools'[p].is_frozen
                /\ [pools'[p] EXCEPT !.is_frozen = TRUE] = pools[p]
                /\ treasuries' = treasuries
                /\ managerCaps' = managerCaps
                /\ \A x \in 0..MaxCoin :
                      LET r == SwapWithFeeOutcome(pools'[p], treasuries'[p], x) IN
                      /\ r.err # "EPoolFrozen"
                      /\ r.pool.token_a - pools'[p].token_a
                           = x - (x * pools[p].fee_percentage) \div 10000
                           \/ r.err # "OK"
      ]_vars

\* a frozen pool was unfrozen, and a swap on it succeeds again
C24_Witness ==
    /\ last.op = "unfreeze_pool"
    /\ last.arg = Flag(TRUE)
    /\ ~pools[last.pool].is_frozen
    /\ LET r == SwapWithFeeOutcome(pools[last.pool], treasuries[last.pool], 1)
       IN  r.err = "OK" /\ r.out > 0

\* out is the floor of amountIn * reserveOut / (reserveIn + amountIn), and
\* less than reserveOut
IsFloorQuotient(out, amountIn, reserveIn, reserveOut) ==
    /\ out * (reserveIn + amountIn) <= amountIn * reserveOut
    /\ amountIn * reserveOut < (out + 1) * (reserveIn + amountIn)
    /\ out < reserveOut

\* C25: on non-zero reserves the output of a swap is the one integer out with
\* out * (reserve_in + amount_in) <= amount_in * reserve_out
\*   < (out + 1) * (reserve_in + amount_in),
\* amount_in being what the reserve of the input asset gains; it is less than
\* reserve_out and is exactly what the reserve of the output asset loses.
C25_OutputIsFloorQuotient ==
    [][ /\ ( /\ SwapWithFeeOk(last')
             /\ pools[last'.pool].token_a > 0
             /\ pools[last'.pool].token_b > 0 )
           => LET before == pools[last'.pool]
                  after == pools'[last'.pool] IN
              /\ IsFloorQuotient(last'.out, after.token_a - before.token_a,
                                 before.token_a, before.token_b)
              /\ after.token_b = before.token_b - last'.out
        /\ ( /\ SimpleSwapOk(last')
             /\ spool[1].token_a > 0
             /\ spool[1].token_b > 0 )
           => LET aToB == last'.op = "swap_a_to_b"
                  reserveIn == IF aToB THEN spool[1].token_a ELSE spool[1].token_b
                  reserveOut == IF aToB THEN spool[1].token_b ELSE spool[1].token_a
                  afterIn == IF aToB THEN spool'[1].token_a ELSE spool'[1].token_b
                  afterOut == IF aToB THEN spool'[1].token_b ELSE spool'[1].token_a
              IN  /\ afterIn = reserveIn + last'.amount
                  /\ IsFloorQuotient(last'.out, last'.amount, reserveIn, reserveOut)
                  /\ afterOut = reserveOut - last'.out
      ]_vars

\* a swap paid out a non-zero amount that is less than the exact quotient
C25_Witness ==
    /\ last.op = "swap_a_to_b"
    /\ last.err = "OK"
    /\ last.out > 0
    /\ spool[1].token_a > last.amount
    /\ (last.amount * (spool[1].token_b + last.out)) % spool[1].token_a # 0

\* 10000 times the input less the exact fee input * fee / 10000
ExactNet(input_amount, fee_percentage) == input_amount * (10000 - fee_percentage)

\* C26 (as claimed): a successful swap on non-zero reserves with a fee of at
\* most 10000 charges floor(input * fee / 10000), and pays out no more than
\* the output net * B / (A + net) of the exact net input
\* net = input - input * fee / 10000.
C26_RoundingFavorsPool ==
    [][ ( /\ SwapWithFeeOk(last')
          /\ pools[last'.pool].token_a > 0
          /\ pools[last'.pool].token_b > 0
          /\ pools[last'.pool].fee_percentage <= 10000 )
        => LET before == pools[last'.pool]
               n == ExactNet(last'.amount, before.fee_percentage) IN
           /\ treasuries'[last'.treasury].collected_a
                 - treasuries[last'.treasury].collected_a
                = (last'.amount * before.fee_percentage) \div 10000
           /\ last'.out * (10000 * before.token_a + n) <= n * before.token_b
      ]_vars

\* C26 (amended): a successful swap with a fee of at most 10000 charges
\* floor(input * fee / 10000), which is never more than the exact fee, and
\* so swaps at least the exact net input: it pays out no less than the floor
\* of the output of the exact net input.
C26_RoundingFavorsTrader ==
    [][ ( /\ SwapWithFeeOk(last')
          /\ pools[last'.pool].fee_percentage <= 10000 )
        => LET before == pools[last'.pool]
               after == pools'[last'.pool]
               n == ExactNet(last'.amount, before.fee_percentage)
               charged == treasuries'[last'.treasury].collected_a
                            - treasuries[last'.treasury].collected_a IN
           /\ charged * 10000 <= last'.amount * before.fee_percentage
           /\ last'.amount * before.fee_percentage < (charged + 1) * 10000
           /\ 10000 * (after.token_a - before.token_a) >= n
           /\ (last'.out + 1) * (10000 * before.token_a + n) > n * before.token_b
      ]_vars

\* a swap was charged less than the exact fee and paid out
C26_Witness ==
    /\ SwapWithFeeOk(last)
    /\ last.out > 0
    /\ pools[last.pool].fee_percentage \in 1..9999
    /\ (last.amount * pools[last.pool].fee_percentage) % 10000 # 0
    /\ pools[last.pool].token_a > last.amount

\* C27 (as claimed): a swap on a pool that is not frozen, with non-zero
\* reserves and a fee of at most 10000, either commits the exact fee
\* floor(input * fee / 10000) and the exact output floor(s * B / (A + s)), or
\* aborts with an arithmetic error and commits nothing; and it aborts so
\* only when a balance it would commit does not fit the integer type, not
\* because a product of two values that fit does not.
C27_NoSpuriousOverflow ==
    [][ ( /\ last'.op = "swap_with_fee"
          /\ ~pools[last'.pool].is_frozen
          /\ pools[last'.pool].token_a > 0
          /\ pools[last'.pool].token_b > 0
          /\ pools[last'.pool].fee_percentage <= 10000 )
        => LET before == pools[last'.pool]
               t == last'.treasury
               fee == (last'.amount * before.fee_percentage) \div 10000
               s == last'.amount - fee
               out == (s * before.token_b) \div (before.token_a + s) IN
           /\ last'.err \in {"OK", "ARITHMETIC_ERROR"}
           /\ last'.err = "OK" =>
                 /\ pools'[last'.pool].token_a = before.token_a + s
                 /\ pools'[last'.pool].token_b = before.token_b - out
                 /\ treasuries'[t].collected_a = treasuries[t].collected_a + fee
                 /\ last'.out = out
           /\ last'.err # "OK" => pools' = pools /\ treasuries' = treasuries
           /\ last'.err = "ARITHMETIC_ERROR" =>
                 \/ before.token_a + s > MaxU64
                 \/ treasuries[t].collected_a + fee > MaxU64
      ]_vars

\* C29: on a frozen pool update_fee and withdraw_fees, called with the
\* PoolManagerCap of the pool, succeed and do what they do on an active
\* pool: update_fee sets the fee and nothing else, withdraw_fees returns and
\* removes all that the treasury holds, and the pool stays frozen.
C29_FrozenBlocksOnlySwaps ==
    [][ /\ ( /\ last'.op = "update_fee"
             /\ managerCaps[last'.cap].pool_id = last'.pool
             /\ pools[last'.pool].is_frozen )
           => /\ last'.err = "OK"
              /\ pools' = [pools EXCEPT ![last'.pool].fee_percentage = last'.arg]
              /\ pools'[last'.pool].is_frozen
              /\ treasuries' = treasuries
        /\ ( /\ last'.op = "withdraw_fees"
             /\ managerCaps[last'.cap].pool_id = last'.treasury
             /\ pools[last'.treasury].is_frozen )
           => /\ last'.err = "OK"
              /\ last'.out = treasuries[last'.treasury].collected_a
              /\ last'.out2 = treasuries[last'.treasury].collected_b
              /\ treasuries'[last'.treasury] = [collected_a |-> 0, collected_b |-> 0]
              /\ pools' = pools
      ]_vars

\* fees collected before the freeze were withdrawn while the pool was frozen
C29_Witness ==
    /\ last.op = "withdraw_fees"
    /\ last.err = "OK"
    /\ last.out > 0
    /\ pools[last.treasury].is_frozen

\* the fee of a frozen pool was changed
C29_WitnessFee ==
    /\ last.op = "update_fee"
    /\ last.err = "OK"
    /\ pools[last.pool].is_frozen
    /\ pools[last.pool].fee_percentage = last.arg
    /\ last.arg > 0

\* C30 (as claimed): while a stake transaction handed to signAndExecute has
\* had neither onSuccess nor onError, isStaking is true and the Stake SUI
\* button is disabled, and likewise for unstake; so never more than one
\* stake, nor more than one unstake, is in flight.
C30_BusyCoversSubmission ==
    /\ stakeInFlight > 0 => isStaking /\ StakeButtonDisabled
    /\ unstakeInFlight > 0 => isUnstaking /\ UnstakeButtonDisabled
    /\ stakeInFlight <= 1
    /\ unstakeInFlight <= 1

====
